---------------------------- MODULE Spec2Model ----------------------------
(***************************************************************************)
(* Model of src/src/data_loader.py: the currency normalizer                *)
(* parse_iso_currency, the two sheet parsers parse_erfolgsrechnung and     *)
(* parse_bilanz with their inner extract_data loops, and                   *)
(* load_financial_data; and of the Streamlit session of src/src/main.py.   *)
(*                                                                         *)
(* A text is a sequence of one-character strings; in grid cells a marker   *)
(* word ("Ertraege" for "Erträge", "Aufwaende" for "Aufwände", "Aktiva",   *)
(* "Passiva") is one element of the sequence.  A number is a count of      *)
(* 1/Scale units, so that two decimal places are exact.                    *)
(***************************************************************************)
EXTENDS Integers, Sequences, FiniteSets, TLC

VARIABLES
    fmt,                 \* how the argument of parse_iso_currency was written
    value,               \* parse_iso_currency: the argument
    number_str,          \* parse_iso_currency: the matched numeric token
    result,              \* parse_iso_currency: the returned cell
    npc,                 \* parse_iso_currency: "search" | "convert" | "done"
    parser,              \* which sheet parser runs: "erfolgsrechnung" | "bilanz"
    df,                  \* the processed grid handed to the parser
    loc,                 \* marker -> [row, col], -1/-1 when not found
    data_dict,           \* marker -> mapping label -> amount
    pc,                  \* "locate" | "call" | "loop" | "returned" | "raised"
    cur,                 \* the marker whose extract_data call is next or running
    i,                   \* extract_data: the row the loop is at
    last_was_numeric,    \* parse_erfolgsrechnung.extract_data: the stop flag
    empty_row_counter,   \* parse_bilanz.extract_data: consecutive blank rows
    stopped_at,          \* marker -> row where the loop executed break, -1 if none
    exc,                 \* the exception that left the parser, "none" if none
    xls,                 \* load_financial_data: sheet name -> raw grid of the workbook
    processed,           \* load_financial_data: sheet name -> its processed grid
    financial_data,      \* load_financial_data: key -> mapping or display table
    lpc,                 \* "bilanz" | "erfolgsrechnung" | "return" | "returned" | "raised"
    session_state,       \* main.py: authenticated, report_generated,
                         \* full_financial_data, uploaded_image
    report_uploader,     \* the file held by the widget "report_uploader"
    image_uploader,      \* the file held by the widget "image_uploader"
    page,                \* what the last script run drew:
                         \* "login" | "info" | "preview" | "error"
    event,               \* the widget event that started the last script run
    workbooks            \* the workbooks the user has at hand, each with what
                         \* load_financial_data makes of it

normVars == <<fmt, value, number_str, result, npc>>
gridVars == <<parser, df, loc, data_dict, pc, cur, i, last_was_numeric,
              empty_row_counter, stopped_at, exc>>
loadVars == <<xls, processed, financial_data, lpc>>
uiVars == <<session_state, report_uploader, image_uploader, page, event, workbooks>>
vars == <<fmt, value, number_str, result, npc, parser, df, loc, data_dict, pc, cur, i,
          last_was_numeric, empty_row_counter, stopped_at, exc,
          xls, processed, financial_data, lpc,
          session_state, report_uploader, image_uploader, page, event, workbooks>>

(***************************************************************************)
(* Bounds of the checked inputs.                                           *)
(***************************************************************************)
MaxLen == 5
MaxGap == 1
MaxRows == 5
NumCols == 5
LoadRows == 3

(* round(x, 2): numbers are kept in hundredths. *)
Scale == 100

(***************************************************************************)
(* Cells: the values pandas hands over (str, int/float, NaN).              *)
(***************************************************************************)
Text(s) == [tag |-> "text", s |-> s, n |-> 0]
Num(n) == [tag |-> "num", s |-> <<>>, n |-> n]
Absent == [tag |-> "absent", s |-> <<>>, n |-> 0]
EmptyText == Text(<<>>)

isinstance_str(c) == c.tag = "text"
isinstance_number(c) == c.tag = "num"

(***************************************************************************)
(* Characters.                                                             *)
(***************************************************************************)
Upper == {"C", "H", "F"}
Lower == {"x", "y"}
Digits == {"0", "1", "2", "3", "4", "5", "6", "7", "8", "9"}
Markers == {"Ertraege", "Aufwaende", "Aktiva", "Passiva"}
Space == {" "}
\* [\d',.]
NumChars == Digits \cup {"'", ",", "."}
\* \w, as far as the alphabet goes; a marker word is made of letters
WordChars == Upper \cup Lower \cup Digits \cup Markers

DigitValue == ("0" :> 0) @@ ("1" :> 1) @@ ("2" :> 2) @@ ("3" :> 3) @@ ("4" :> 4) @@
              ("5" :> 5) @@ ("6" :> 6) @@ ("7" :> 7) @@ ("8" :> 8) @@ ("9" :> 9)

RECURSIVE Pow10(_)
Pow10(k) == IF k = 0 THEN 1 ELSE 10 * Pow10(k - 1)

(***************************************************************************)
(* str methods.                                                            *)
(***************************************************************************)
RECURSIVE lstrip(_)
lstrip(s) == IF s # <<>> /\ Head(s) \in Space THEN lstrip(Tail(s)) ELSE s

RECURSIVE rstrip(_)
rstrip(s) == IF s # <<>> /\ s[Len(s)] \in Space
             THEN rstrip(SubSeq(s, 1, Len(s) - 1)) ELSE s

strip(s) == rstrip(lstrip(s))

\* s.replace(c, "")
RECURSIVE remove(_, _)
remove(s, c) == IF s = <<>> THEN <<>>
                ELSE IF Head(s) = c THEN remove(Tail(s), c)
                ELSE <<Head(s)>> \o remove(Tail(s), c)

\* s.replace(c, d) for single characters
replace(s, c, d) == [k \in 1..Len(s) |-> IF s[k] = c THEN d ELSE s[k]]

isdigit(s) == s # <<>> /\ \A k \in 1..Len(s) : s[k] \in Digits

\* marker in cell_value
contains(s, m) == \E k \in 1..Len(s) : s[k] = m

(***************************************************************************)
(* float(str): optional sign, digits with at most one ".", at least one    *)
(* digit, surrounding whitespace ignored.  The value is mant / 10^frac.    *)
(***************************************************************************)
RECURSIVE DigitsValue(_)
DigitsValue(s) == IF s = <<>> THEN 0
                  ELSE 10 * DigitsValue(SubSeq(s, 1, Len(s) - 1)) + DigitValue[s[Len(s)]]

float_str(s0) ==
    LET s == strip(s0)
        neg == s # <<>> /\ Head(s) = "-"
        body == IF neg THEN Tail(s) ELSE s
        dots == {k \in 1..Len(body) : body[k] = "."}
        ds == remove(body, ".")
        ok == /\ Cardinality(dots) <= 1
              /\ isdigit(ds)
        dot == IF dots = {} THEN Len(body) ELSE CHOOSE k \in dots : TRUE
    IN  IF ok
        THEN [ok |-> TRUE, mant |-> (IF neg THEN -1 ELSE 1) * DigitsValue(ds),
              frac |-> Len(body) - dot]
        ELSE [ok |-> FALSE, mant |-> 0, frac |-> 0]

\* round(x, 2) of mant / 10^frac, in hundredths.  A half is rounded to even;
\* the checked inputs hold no value that lies exactly on a half.
round2(mant, frac) ==
    IF frac <= 2 THEN mant * Pow10(2 - frac)
    ELSE LET p == Pow10(frac - 2)
             a == IF mant < 0 THEN -mant ELSE mant
             q == a \div p
             r == a % p
             up == 2 * r > p \/ (2 * r = p /\ q % 2 = 1)
             m == IF up THEN q + 1 ELSE q
         IN  IF mant < 0 THEN -m ELSE m

(***************************************************************************)
(* re.search of the two patterns of parse_iso_currency.                    *)
(***************************************************************************)
RECURSIVE SkipSpaces(_, _)
SkipSpaces(s, p) == IF p <= Len(s) /\ s[p] \in Space THEN SkipSpaces(s, p + 1) ELSE p

\* the last index of the run of [\d',.] that starts at p
RECURSIVE RunEnd(_, _)
RunEnd(s, p) == IF p + 1 <= Len(s) /\ s[p + 1] \in NumChars THEN RunEnd(s, p + 1) ELSE p

\* [A-Z]{3} without the two \b
iso_pattern_NoBoundary(s, p) ==
    /\ p + 2 <= Len(s)
    /\ \A k \in p..(p + 2) : s[k] \in Upper

\* \b([A-Z]{3})\b matched at p
iso_pattern(s, p) ==
    /\ p + 2 <= Len(s)
    /\ \A k \in p..(p + 2) : s[k] \in Upper
    /\ (p = 1 \/ s[p - 1] \notin WordChars)
    /\ (p + 3 > Len(s) \/ s[p + 3] \notin WordChars)

\* -?\s*[\d',.]+ matched at q: its extent [from, to], or from = 0
number_pattern(s, q) ==
    LET a == IF q <= Len(s) /\ s[q] = "-" THEN q + 1 ELSE q
        b == SkipSpaces(s, a)
    IN  IF b <= Len(s) /\ s[b] \in NumChars
        THEN [from |-> q, to |-> RunEnd(s, b)]
        ELSE [from |-> 0, to |-> 0]

\* {iso_pattern}\s*({number_pattern}) matched at p: group 2, or from = 0
MatchLeading(s, p) ==
    IF iso_pattern(s, p)
    THEN number_pattern(s, SkipSpaces(s, p + 3))
    ELSE [from |-> 0, to |-> 0]

\* ({number_pattern})\s*{iso_pattern} matched at p: group 1, or from = 0
MatchTrailing(s, p) ==
    LET g == number_pattern(s, p)
    IN  IF g.from # 0 /\ iso_pattern(s, SkipSpaces(s, g.to + 1))
        THEN g
        ELSE [from |-> 0, to |-> 0]

\* re.search: the match at the leftmost position of the text
Leftmost(hits) == CHOOSE x \in hits : \A y \in hits : x <= y

\* line 19
SearchLeading(s) ==
    LET hits == {p \in 1..Len(s) : MatchLeading(s, p).from # 0}
    IN  IF hits = {} THEN [found |-> FALSE, group |-> <<>>]
        ELSE LET g == MatchLeading(s, Leftmost(hits))
             IN  [found |-> TRUE, group |-> SubSeq(s, g.from, g.to)]

\* line 23
SearchTrailing(s) ==
    LET hits == {p \in 1..Len(s) : MatchTrailing(s, p).from # 0}
    IN  IF hits = {} THEN [found |-> FALSE, group |-> <<>>]
        ELSE LET g == MatchTrailing(s, Leftmost(hits))
             IN  [found |-> TRUE, group |-> SubSeq(s, g.from, g.to)]

\* lines 19-27: the token next to a currency code, leading code first
FindNumber(s) ==
    LET m1 == SearchLeading(s)
    IN  IF m1.found THEN m1 ELSE SearchTrailing(s)

\* line 33 without .replace("'", "")
CleanUS_KeepApostrophe(s) == remove(remove(s, ","), " ")

\* line 33
CleanUS(s) == remove(remove(remove(s, "'"), ","), " ")
\* line 38
CleanEuropean(s) == remove(replace(remove(remove(s, "'"), "."), ",", "."), " ")

\* lines 30-41 with 0.0 returned when both attempts fail
Convert_Zero(v, token) ==
    LET t == strip(token)
        us == float_str(CleanUS(t))
        eu == float_str(CleanEuropean(t))
    IN  IF us.ok THEN Num(round2(us.mant, us.frac))
        ELSE IF eu.ok THEN Num(round2(eu.mant, eu.frac))
        ELSE Num(0)

\* lines 30-41
Convert(v, token) ==
    LET t == strip(token)
        us == float_str(CleanUS(t))
        eu == float_str(CleanEuropean(t))
    IN  IF us.ok THEN Num(round2(us.mant, us.frac))
        ELSE IF eu.ok THEN Num(round2(eu.mant, eu.frac))
        ELSE v

\* the whole function
parse_iso_currency(v) ==
    IF ~isinstance_str(v) THEN v
    ELSE LET m == FindNumber(v.s)
         IN  IF m.found THEN Convert(v, m.group) ELSE v

(***************************************************************************)
(* Arguments of parse_iso_currency.  A written amount is a sign, digit      *)
(* groups joined by a thousands separator and decimals after a decimal     *)
(* separator; it stands next to the currency code, before or after it,     *)
(* gap blanks apart.                                                       *)
(***************************************************************************)
Code == <<"C", "H", "F">>
Signs == {<<>>, <<"-">>, <<"-", " ">>}
IntParts == {<< <<"1">> >>, << <<"1", "2">> >>,
             << <<"1">>, <<"2", "3", "4">> >>,
             << <<"1", "2">>, <<"2", "3", "4">> >>,
             << <<"1">>, <<"2", "3", "4">>, <<"5", "6", "7">> >>}
Fracs == {<<>>, <<"5">>, <<"5", "0">>, <<"5", "0", "4">>, <<"5", "0", "6">>}
USThousands == {<<>>, <<"'">>, <<",">>}
EUThousands == {<<>>, <<".">>}

RECURSIVE Join(_, _)
Join(groups, sep) == IF Len(groups) = 1 THEN groups[1]
                     ELSE groups[1] \o sep \o Join(Tail(groups), sep)

RECURSIVE Blanks(_)
Blanks(k) == IF k = 0 THEN <<>> ELSE <<" ">> \o Blanks(k - 1)

Written(sign, groups, sep, point, frac) ==
    sign \o Join(groups, sep) \o (IF frac = <<>> THEN <<>> ELSE point \o frac)

\* the amount the writer meant, in hundredths
Meant(sign, groups, frac) ==
    LET m == DigitsValue(Join(groups, <<>>) \o frac)
    IN  round2(IF sign = <<>> THEN m ELSE -m, Len(frac))

Beside(leading, gap, token) ==
    IF leading THEN Code \o Blanks(gap) \o token ELSE token \o Blanks(gap) \o Code

\* Three ungrouped groups with a decimal comma are left out: read without the
\* comma they are a whole number whose hundredths exceed 32 bits.
Writings(seps, point) ==
    {w \in [sign : Signs, groups : IntParts, sep : seps, frac : Fracs] :
        Len(w.groups) < 3 \/ w.sep # <<>> \/ point # <<",">>}

WrittenInputs(conv, seps, point) ==
    {[cell |-> Text(Beside(l, g, Written(w.sign, w.groups, w.sep, point, w.frac))),
      fmt |-> [conv |-> conv, amount |-> Meant(w.sign, w.groups, w.frac), gap |-> g,
               groups |-> Len(w.groups), decimals |-> Len(w.frac)]] :
        l \in BOOLEAN, g \in 0..MaxGap, w \in Writings(seps, point)}

Sigma == {"C", "x", "1", ",", ".", "-", " "}
FreeTexts == UNION {[1..n -> Sigma] : n \in 0..MaxLen}
NoFmt == [conv |-> "none", amount |-> 0, gap |-> 0, groups |-> 0, decimals |-> 0]

\* numeric tokens of digits and separators in any order, beside the code
SeparatorTokens ==
    UNION {[1..n -> {"1", ".", ","}] : n \in 1..MaxLen}
        \cup {<<"1", ".", "2", ".", "3", ",", "4", ",", "5">>}
SeparatorInputs ==
    {[cell |-> Text(Beside(l, g, w)), fmt |-> NoFmt] :
        l \in BOOLEAN, g \in 0..MaxGap, w \in SeparatorTokens}

\* the arguments, by the way they are made
InputClasses == {"US", "EU", "separators", "free", "other"}
NormInputs(class) ==
    CASE class = "US" -> WrittenInputs("US", USThousands, <<".">>)
      [] class = "EU" -> WrittenInputs("EU", EUThousands, <<",">>)
      [] class = "separators" -> SeparatorInputs
      [] class = "free" -> {[cell |-> Text(s), fmt |-> NoFmt] : s \in FreeTexts}
      [] class = "other" ->
            {[cell |-> c, fmt |-> NoFmt] : c \in {Absent, Num(0), Num(123450), Num(-7)}}

(***************************************************************************)
(* The values the variables of the part that is not running keep.          *)
(***************************************************************************)
NoLoc == [row |-> -1, col |-> -1]
NoDict == << >>

NormIdle ==
    /\ fmt = NoFmt
    /\ value = Absent
    /\ number_str = <<>>
    /\ result = Absent
    /\ npc = "idle"

GridIdle ==
    /\ parser = "none"
    /\ df = <<>>
    /\ loc = [m \in {} |-> NoLoc]
    /\ data_dict = [m \in {} |-> NoDict]
    /\ pc = "idle"
    /\ cur = "none"
    /\ i = 0
    /\ last_was_numeric = FALSE
    /\ empty_row_counter = 0
    /\ stopped_at = [m \in {} |-> -1]
    /\ exc = "none"

LoadIdle ==
    /\ xls = << >>
    /\ processed = << >>
    /\ financial_data = << >>
    /\ lpc = "idle"

UiIdle ==
    /\ session_state = << >>
    /\ report_uploader = << >>
    /\ image_uploader = << >>
    /\ page = "idle"
    /\ event = "idle"
    /\ workbooks = << >>

(***************************************************************************)
(* parse_iso_currency as two steps: the search and the conversion.         *)
(***************************************************************************)
NormInit ==
    /\ \E class \in InputClasses : \E in \in NormInputs(class) : value = in.cell /\ fmt = in.fmt
    /\ number_str = <<>>
    /\ result = Absent
    /\ npc = "search"
    /\ GridIdle
    /\ LoadIdle
    /\ UiIdle

\* lines 11-27
NormSearch ==
    /\ npc = "search"
    /\ LET m == IF isinstance_str(value) THEN FindNumber(value.s)
                ELSE [found |-> FALSE, group |-> <<>>]
       IN  IF m.found
           THEN /\ number_str' = m.group
                /\ npc' = "convert"
                /\ UNCHANGED result
           ELSE /\ result' = parse_iso_currency(value)
                /\ npc' = "done"
                /\ UNCHANGED number_str
    /\ UNCHANGED <<fmt, value>>
    /\ UNCHANGED gridVars
    /\ UNCHANGED loadVars
    /\ UNCHANGED uiVars

\* lines 29-41
NormConvert ==
    /\ npc = "convert"
    /\ result' = Convert(value, number_str)
    /\ npc' = "done"
    /\ UNCHANGED <<fmt, value, number_str>>
    /\ UNCHANGED gridVars
    /\ UNCHANGED loadVars
    /\ UNCHANGED uiVars

NormNext == NormSearch \/ NormConvert

SpecNorm == NormInit /\ [][NormNext]_vars

(***************************************************************************)
(* The grid: a sequence of rows of equal length; df.iloc[r, c] counts from *)
(* 0 and a negative index counts from the end.                             *)
(***************************************************************************)
len_df(g) == Len(g)
len_columns(g) == IF g = <<>> THEN 0 ELSE Len(g[1])

InRange(g, r, c) ==
    /\ -len_df(g) <= r /\ r < len_df(g)
    /\ -len_columns(g) <= c /\ c < len_columns(g)

\* df.iloc[r, c] where it does not raise IndexError
iloc(g, r, c) ==
    g[(IF r < 0 THEN r + len_df(g) ELSE r) + 1][(IF c < 0 THEN c + len_columns(g) ELSE c) + 1]

\* pd.isna(cell_content) or cell_content == ''
is_blank(c) == c.tag = "absent" \/ c = EmptyText

\* float(value_cell) of a cell of a processed grid, in hundredths
to_float(c) ==
    IF isinstance_number(c) THEN [ok |-> TRUE, v |-> c.n]
    ELSE LET f == float_str(c.s)
         IN  IF isinstance_str(c) /\ f.ok
             THEN [ok |-> TRUE, v |-> round2(f.mant, f.frac)]
             ELSE [ok |-> FALSE, v |-> 0]

\* data_dict[key] = v that keeps an entry already there
DictSet_KeepFirst(d, key, v) ==
    IF key \in DOMAIN d THEN d ELSE [k \in DOMAIN d \cup {key} |-> IF k = key THEN v ELSE d[k]]

\* data_dict[key] = v
DictSet(d, key, v) == [k \in DOMAIN d \cup {key} |-> IF k = key THEN v ELSE d[k]]

\* the markers of a parser, in the order of its if / elif
FirstMarker(p) == IF p = "erfolgsrechnung" THEN "Ertraege" ELSE "Aktiva"
SecondMarker(p) == IF p = "erfolgsrechnung" THEN "Aufwaende" ELSE "Passiva"
MarkersOf(p) == {FirstMarker(p), SecondMarker(p)}

(***************************************************************************)
(* The anchor scan, lines 54-63 and 127-136: row-major, every match        *)
(* overwrites, the second marker is tested in the elif of the first.       *)
(***************************************************************************)
ScanCell(acc, g, r, c, first, second) ==
    LET cell_value == iloc(g, r, c)
    IN  IF isinstance_str(cell_value)
        THEN IF contains(cell_value.s, first)
             THEN [acc EXCEPT ![first] = [row |-> r, col |-> c]]
             ELSE IF contains(cell_value.s, second)
             THEN [acc EXCEPT ![second] = [row |-> r, col |-> c]]
             ELSE acc
        ELSE acc

\* the cells k, k+1, ... in row-major order
RECURSIVE ScanFrom(_, _, _, _, _)
ScanFrom(acc, g, k, first, second) ==
    IF k >= len_df(g) * len_columns(g) THEN acc
    ELSE ScanFrom(ScanCell(acc, g, k \div len_columns(g), k % len_columns(g), first, second),
                  g, k + 1, first, second)

\* the anchors start at the origin instead of -1
locate_FromOrigin(g, first, second) ==
    ScanFrom([m \in {first, second} |-> [row |-> 0, col |-> 0]], g, 0, first, second)

locate(g, first, second) ==
    ScanFrom([m \in {first, second} |-> NoLoc], g, 0, first, second)

(***************************************************************************)
(* One iteration of the loop of parse_erfolgsrechnung.extract_data,        *)
(* lines 70-108: what it does to the mapping d and the flag.               *)
(***************************************************************************)
Continue(d, flag, counter) ==
    [ctl |-> "continue", dict |-> d, flag |-> flag, counter |-> counter, exc |-> "none"]
Break(d, flag, counter) ==
    [ctl |-> "break", dict |-> d, flag |-> flag, counter |-> counter, exc |-> "none"]
Raise(d, flag, counter, e) ==
    [ctl |-> "raise", dict |-> d, flag |-> flag, counter |-> counter, exc |-> e]

\* lines 82-87 without last_was_numeric = False
ErRuleA_KeepFlag(g, r, col, d, flag) ==
    LET key == strip(iloc(g, r, col).s)
    IN  IF ~InRange(g, r, col + 3) THEN Raise(d, flag, 0, "IndexError")
        ELSE LET f == to_float(iloc(g, r, col + 3))
             IN  Continue(IF f.ok THEN DictSet(d, key, f.v) ELSE d, flag, 0)

\* lines 82-88
ErRuleA(g, r, col, d, flag) ==
    LET key == strip(iloc(g, r, col).s)
    IN  IF ~InRange(g, r, col + 3) THEN Raise(d, flag, 0, "IndexError")
        ELSE LET f == to_float(iloc(g, r, col + 3))
             IN  Continue(IF f.ok THEN DictSet(d, key, f.v) ELSE d, FALSE, 0)

\* lines 92-98 without last_was_numeric = True
ErRuleB_NoFlag(g, r, col, d, flag) ==
    IF ~InRange(g, r, col + 1) THEN Raise(d, flag, 0, "IndexError")
    ELSE IF ~isinstance_str(iloc(g, r, col + 1)) THEN Raise(d, flag, 0, "AttributeError")
    ELSE IF ~InRange(g, r, col + 3) THEN Raise(d, flag, 0, "IndexError")
    ELSE LET key == strip(iloc(g, r, col + 1).s)
             f == to_float(iloc(g, r, col + 3))
         IN  Continue(IF f.ok THEN DictSet(d, key, f.v) ELSE d, FALSE, 0)

\* lines 92-98 with last_was_numeric = True inside the try
ErRuleB_FlagIfCoerced(g, r, col, d, flag) ==
    IF ~InRange(g, r, col + 1) THEN Raise(d, flag, 0, "IndexError")
    ELSE IF ~isinstance_str(iloc(g, r, col + 1)) THEN Raise(d, flag, 0, "AttributeError")
    ELSE IF ~InRange(g, r, col + 3) THEN Raise(d, flag, 0, "IndexError")
    ELSE LET key == strip(iloc(g, r, col + 1).s)
             f == to_float(iloc(g, r, col + 3))
         IN  IF f.ok THEN Continue(DictSet(d, key, f.v), TRUE, 0) ELSE Continue(d, flag, 0)

\* lines 92-98 and 102-108
ErRuleB(g, r, col, d, flag) ==
    IF ~InRange(g, r, col + 1) THEN Raise(d, flag, 0, "IndexError")
    ELSE IF ~isinstance_str(iloc(g, r, col + 1)) THEN Raise(d, flag, 0, "AttributeError")
    ELSE IF ~InRange(g, r, col + 3) THEN Raise(d, flag, 0, "IndexError")
    ELSE LET key == strip(iloc(g, r, col + 1).s)
             f == to_float(iloc(g, r, col + 3))
         IN  Continue(IF f.ok THEN DictSet(d, key, f.v) ELSE d, TRUE, 0)

\* line 81
IsRuleA(c) == isinstance_str(c) /\ ~isdigit(strip(c.s))
\* line 91
IsRuleBText(c) == isinstance_str(c) /\ isdigit(strip(c.s)) /\ Len(strip(c.s)) = 4
\* line 101 with the upper bound included
IsRuleBNumber_Inclusive(c) == isinstance_number(c) /\ 1000 * Scale <= c.n /\ c.n <= 10000 * Scale
\* line 101
IsRuleBNumber(c) == isinstance_number(c) /\ 1000 * Scale <= c.n /\ c.n < 10000 * Scale

\* lines 70-108 with the flag cleared at a row that matches no rule
ErRow_ClearFlag(g, r, col, d, flag) ==
    LET cell_content == iloc(g, r, col)
    IN  IF is_blank(cell_content)
        THEN IF flag THEN Break(d, flag, 0) ELSE Continue(d, flag, 0)
        ELSE IF IsRuleA(cell_content) THEN ErRuleA(g, r, col, d, flag)
        ELSE IF IsRuleBText(cell_content) THEN ErRuleB(g, r, col, d, flag)
        ELSE IF IsRuleBNumber(cell_content) THEN ErRuleB(g, r, col, d, flag)
        ELSE Continue(d, FALSE, 0)

ErRow(g, r, col, d, flag) ==
    LET cell_content == iloc(g, r, col)
    IN  IF is_blank(cell_content)
        THEN IF flag THEN Break(d, flag, 0) ELSE Continue(d, flag, 0)
        ELSE IF IsRuleA(cell_content) THEN ErRuleA(g, r, col, d, flag)
        ELSE IF IsRuleBText(cell_content) THEN ErRuleB(g, r, col, d, flag)
        ELSE IF IsRuleBNumber(cell_content) THEN ErRuleB(g, r, col, d, flag)
        ELSE Continue(d, flag, 0)

(***************************************************************************)
(* One iteration of the loop of parse_bilanz.extract_data, lines 143-177.  *)
(***************************************************************************)
\* lines 147-152 without empty_row_counter += 1
BiCount_NoIncrement(g, r, col, counter) ==
    IF ~is_blank(iloc(g, r - 1, col)) THEN 1 ELSE counter

\* lines 147-152
BiCount(g, r, col, counter) ==
    IF counter > 0 THEN counter + 1
    ELSE IF ~is_blank(iloc(g, r - 1, col)) THEN 1
    ELSE counter

\* lines 162-167
BiRuleA(g, r, col, d) ==
    LET key == strip(iloc(g, r, col).s)
    IN  IF ~InRange(g, r, col + 3) THEN Raise(d, FALSE, 0, "IndexError")
        ELSE LET f == to_float(iloc(g, r, col + 3))
             IN  Continue(IF f.ok THEN DictSet(d, key, f.v) ELSE d, FALSE, 0)

\* lines 172-177 with the label taken as it is
BiRuleB_NoStrip(g, r, col, d) ==
    IF ~InRange(g, r, col + 1) THEN Raise(d, FALSE, 0, "IndexError")
    ELSE IF ~isinstance_str(iloc(g, r, col + 1)) THEN Raise(d, FALSE, 0, "AttributeError")
    ELSE IF ~InRange(g, r, col + 3) THEN Raise(d, FALSE, 0, "IndexError")
    ELSE LET key == iloc(g, r, col + 1).s
             f == to_float(iloc(g, r, col + 3))
         IN  Continue(IF f.ok THEN DictSet(d, key, f.v) ELSE d, FALSE, 0)

\* lines 172-177
BiRuleB(g, r, col, d) ==
    IF ~InRange(g, r, col + 1) THEN Raise(d, FALSE, 0, "IndexError")
    ELSE IF ~isinstance_str(iloc(g, r, col + 1)) THEN Raise(d, FALSE, 0, "AttributeError")
    ELSE IF ~InRange(g, r, col + 3) THEN Raise(d, FALSE, 0, "IndexError")
    ELSE LET key == strip(iloc(g, r, col + 1).s)
             f == to_float(iloc(g, r, col + 3))
         IN  Continue(IF f.ok THEN DictSet(d, key, f.v) ELSE d, FALSE, 0)

\* lines 144-177 without empty_row_counter = 0 at line 158
BiRow_NoReset(g, r, col, d, counter) ==
    LET cell_content == iloc(g, r, col)
    IN  IF is_blank(cell_content)
        THEN LET n == BiCount(g, r, col, counter)
             IN  IF n >= 3 THEN Break(d, FALSE, n) ELSE Continue(d, FALSE, n)
        ELSE IF isinstance_str(cell_content) /\ ~isdigit(strip(cell_content.s))
             THEN [BiRuleA(g, r, col, d) EXCEPT !.counter = counter]
        ELSE IF \/ (/\ isinstance_str(cell_content)
                    /\ isdigit(strip(cell_content.s))
                    /\ Len(strip(cell_content.s)) = 4)
                \/ (/\ isinstance_number(cell_content)
                    /\ 1000 * Scale <= cell_content.n
                    /\ cell_content.n < 10000 * Scale)
             THEN [BiRuleB(g, r, col, d) EXCEPT !.counter = counter]
        ELSE Continue(d, FALSE, counter)

BiRow(g, r, col, d, counter) ==
    LET cell_content == iloc(g, r, col)
    IN  IF is_blank(cell_content)
        THEN LET n == BiCount(g, r, col, counter)
             IN  IF n >= 3 THEN Break(d, FALSE, n) ELSE Continue(d, FALSE, n)
        ELSE IF isinstance_str(cell_content) /\ ~isdigit(strip(cell_content.s))
             THEN BiRuleA(g, r, col, d)
        ELSE IF \/ (/\ isinstance_str(cell_content)
                    /\ isdigit(strip(cell_content.s))
                    /\ Len(strip(cell_content.s)) = 4)
                \/ (/\ isinstance_number(cell_content)
                    /\ 1000 * Scale <= cell_content.n
                    /\ cell_content.n < 10000 * Scale)
             THEN BiRuleB(g, r, col, d)
        ELSE Continue(d, FALSE, 0)

(***************************************************************************)
(* Processed grids handed to the parsers.  A row is written from column 0: *)
(* the anchor-column cell, the label cell, a note and the amount cell;     *)
(* the columns right of it hold totals.  Every grid is made of the common  *)
(* rows, with at most one row of a rarer kind.                             *)
(***************************************************************************)
Amount(r) == Num((r + 1) * Scale)
Label(r) == IF r % 2 = 0 THEN Text(<<"x">>) ELSE Text(<<" ", "y", " ">>)
Code4 == Text(<<"1", "0", "0", "0">>)
Note == Text(<<"z">>)
\* the cell of a column right of the amounts: a running total
Subtotal(r) == Num((r + 1) * Scale + 50)

CoreKinds == {"blank", "first", "code"}
SpecialKinds == {"second", "second_both", "both", "narrative", "narrative_bad", "whitespace",
                 "code_number", "code_blank_label", "code_number_label",
                 "code_first_label", "code_bad_amount", "code_padded",
                 "digits", "number_999", "number_9999", "number_10000",
                 "first_bad_amount", "first_in_note"}

RowCells(kind, r, first, second) ==
    CASE kind = "blank" -> <<EmptyText, EmptyText, Note, EmptyText>>
      [] kind = "first" -> <<Text(<<first>>), EmptyText, Note, Amount(r)>>
      [] kind = "second" -> <<Text(<<" ", second>>), EmptyText, Note, Amount(r)>>
      [] kind = "code" -> <<Code4, Label(r), Note, Amount(r)>>
      [] kind = "second_both" -> <<Text(<<second>>), Text(<<first, " ", second>>), Note, Amount(r)>>
      [] kind = "both" -> <<Text(<<first, " ", second>>), EmptyText, Note, Amount(r)>>
      [] kind = "narrative" -> <<Text(<<" ", "x", "y">>), EmptyText, Note, Text(<<"7">>)>>
      [] kind = "narrative_bad" -> <<Text(<<"x">>), EmptyText, Note, Text(<<"x">>)>>
      [] kind = "whitespace" -> <<Text(<<" ">>), Label(r), Note, Amount(r)>>
      [] kind = "code_number" -> <<Num(1000 * Scale), Label(r), Note, Text(<<" ", "7">>)>>
      [] kind = "code_blank_label" -> <<Code4, EmptyText, Note, Amount(r)>>
      [] kind = "code_number_label" -> <<Code4, Num(5 * Scale), Note, Amount(r)>>
      [] kind = "code_first_label" -> <<Code4, Text(<<"x", " ", first>>), Note, Amount(r)>>
      [] kind = "code_bad_amount" -> <<Text(<<" ", "1", "0", "0", "0">>), Label(r), Note, EmptyText>>
      [] kind = "code_padded" -> <<Text(<<" ", "1", "0", "0", "0">>), Label(r), Note, Amount(r)>>
      [] kind = "digits" -> <<Text(<<"1", "2">>), Label(r), Note, Amount(r)>>
      [] kind = "number_999" -> <<Num(999 * Scale), Label(r), Note, Amount(r)>>
      [] kind = "number_9999" -> <<Num(9999 * Scale + 99), Label(r), Note, Amount(r)>>
      [] kind = "number_10000" -> <<Num(10000 * Scale), Label(r), Note, Amount(r)>>
      [] kind = "first_bad_amount" -> <<Text(<<first>>), EmptyText, Note, EmptyText>>
      [] kind = "first_in_note" -> <<Text(<<"x">>), EmptyText, Text(<<first, " ", "x">>), Amount(r)>>

MakeRow(kind, r, first, second) ==
    LET cells == RowCells(kind, r, first, second)
    IN  [c \in 1..NumCols |-> IF c <= Len(cells) THEN cells[c] ELSE Subtotal(r)]

Layouts ==
    LET base == [1..MaxRows -> CoreKinds]
    IN  base \cup {[b EXCEPT ![r] = s] : b \in base, r \in 1..MaxRows, s \in SpecialKinds}

\* lines 193 and 195: a fully missing row or column was dropped before the
\* missing cells became '', so every row and column holds another cell
Producible(g) ==
    /\ \A r \in 1..Len(g) : \E c \in 1..Len(g[r]) : g[r][c] # EmptyText
    /\ \A c \in 1..Len(g[1]) : \E r \in 1..Len(g) : g[r][c] # EmptyText

Grids(p) ==
    {g \in {[r \in 1..MaxRows |-> MakeRow(kinds[r], r - 1, FirstMarker(p), SecondMarker(p))] :
                kinds \in Layouts} : Producible(g)}

(***************************************************************************)
(* parse_erfolgsrechnung and parse_bilanz: the anchor scan, then one       *)
(* extract_data call per marker found, a loop iteration per step.          *)
(***************************************************************************)
Init ==
    /\ NormIdle
    /\ LoadIdle
    /\ UiIdle
    /\ parser \in {"erfolgsrechnung", "bilanz"}
    /\ df \in Grids(parser)
    /\ loc = [m \in MarkersOf(parser) |-> NoLoc]
    /\ data_dict = [m \in MarkersOf(parser) |-> NoDict]
    /\ pc = "locate"
    /\ cur = FirstMarker(parser)
    /\ i = 0
    /\ last_was_numeric = FALSE
    /\ empty_row_counter = 0
    /\ stopped_at = [m \in MarkersOf(parser) |-> -1]
    /\ exc = "none"

\* lines 54-63 and 127-136
Locate(p) ==
    /\ parser = p
    /\ pc = "locate"
    /\ loc' = locate(df, FirstMarker(p), SecondMarker(p))
    /\ pc' = "call"
    /\ UNCHANGED <<parser, df, data_dict, cur, i, last_was_numeric,
                   empty_row_counter, stopped_at, exc>>
    /\ UNCHANGED normVars
    /\ UNCHANGED loadVars
    /\ UNCHANGED uiVars

\* the control after an extract_data call of marker m is over: the call for
\* the second marker, or the return of the two mappings
AfterCall(m) ==
    IF m = FirstMarker(parser)
    THEN pc' = "call" /\ cur' = SecondMarker(parser)
    ELSE pc' = "returned" /\ cur' = cur

\* the call with the loop started at the top row of the grid
Call_FromTop(p) ==
    /\ parser = p
    /\ pc = "call"
    /\ IF loc[cur].row # -1 /\ ~(loc[cur].row = -1 \/ loc[cur].col = -1)
       THEN /\ pc' = "loop"
            /\ i' = 0
            /\ last_was_numeric' = FALSE
            /\ empty_row_counter' = 0
            /\ cur' = cur
       ELSE /\ AfterCall(cur)
            /\ UNCHANGED <<i, last_was_numeric, empty_row_counter>>
    /\ UNCHANGED <<parser, df, loc, data_dict, stopped_at, exc>>
    /\ UNCHANGED normVars
    /\ UNCHANGED loadVars
    /\ UNCHANGED uiVars

\* the call with the loop started at the row below the anchor
Call_BelowAnchor(p) ==
    /\ parser = p
    /\ pc = "call"
    /\ IF loc[cur].row # -1 /\ loc[cur].row + 1 < len_df(df)
       THEN /\ pc' = "loop"
            /\ i' = loc[cur].row + 1
            /\ last_was_numeric' = FALSE
            /\ empty_row_counter' = 0
            /\ cur' = cur
       ELSE /\ AfterCall(cur)
            /\ UNCHANGED <<i, last_was_numeric, empty_row_counter>>
    /\ UNCHANGED <<parser, df, loc, data_dict, stopped_at, exc>>
    /\ UNCHANGED normVars
    /\ UNCHANGED loadVars
    /\ UNCHANGED uiVars

\* lines 110-113 with 65-69, and 179-182 with 138-142
Call(p) ==
    /\ parser = p
    /\ pc = "call"
    /\ IF loc[cur].row # -1 /\ ~(loc[cur].row = -1 \/ loc[cur].col = -1)
       THEN /\ pc' = "loop"
            /\ i' = loc[cur].row
            /\ last_was_numeric' = FALSE
            /\ empty_row_counter' = 0
            /\ cur' = cur
       ELSE /\ AfterCall(cur)
            /\ UNCHANGED <<i, last_was_numeric, empty_row_counter>>
    /\ UNCHANGED <<parser, df, loc, data_dict, stopped_at, exc>>
    /\ UNCHANGED normVars
    /\ UNCHANGED loadVars
    /\ UNCHANGED uiVars

\* what one iteration leaves behind
Iterate(step) ==
    /\ data_dict' = [data_dict EXCEPT ![cur] = step.dict]
    /\ last_was_numeric' = step.flag
    /\ empty_row_counter' = step.counter
    /\ exc' = step.exc
    /\ CASE step.ctl = "raise" ->
                /\ pc' = "raised"
                /\ UNCHANGED <<cur, i, stopped_at>>
         [] step.ctl = "break" ->
                /\ stopped_at' = [stopped_at EXCEPT ![cur] = i]
                /\ AfterCall(cur)
                /\ UNCHANGED i
         [] step.ctl = "continue" ->
                /\ i' = i + 1
                /\ IF i + 1 < len_df(df)
                   THEN UNCHANGED <<pc, cur>>
                   ELSE AfterCall(cur)
                /\ UNCHANGED stopped_at
    /\ UNCHANGED <<parser, df, loc>>
    /\ UNCHANGED normVars
    /\ UNCHANGED loadVars
    /\ UNCHANGED uiVars

\* lines 70-108
ErStep ==
    /\ parser = "erfolgsrechnung"
    /\ pc = "loop"
    /\ Iterate(ErRow(df, i, loc[cur].col, data_dict[cur], last_was_numeric))

\* lines 143-177
BiStep ==
    /\ parser = "bilanz"
    /\ pc = "loop"
    /\ Iterate(BiRow(df, i, loc[cur].col, data_dict[cur], empty_row_counter))

ErLocate == Locate("erfolgsrechnung")
ErCall == Call("erfolgsrechnung")
BiLocate == Locate("bilanz")
BiCall == Call("bilanz")

Next == ErLocate \/ ErCall \/ ErStep \/ BiLocate \/ BiCall \/ BiStep

Spec == Init /\ [][Next]_vars

(***************************************************************************)
(* load_financial_data.process_dataframe, lines 191-200.  The new column   *)
(* labels of lines 197-198 are positions, as the parsers read by position. *)
(***************************************************************************)
isna(c) == c.tag = "absent"

\* df.dropna(how='all', axis=0)
dropna_rows(g) == SelectSeq(g, LAMBDA row : \E c \in 1..Len(row) : ~isna(row[c]))

RECURSIVE TakeColumns(_, _, _)
TakeColumns(row, keep, c) ==
    IF c > Len(row) THEN <<>>
    ELSE (IF c \in keep THEN <<row[c]>> ELSE <<>>) \o TakeColumns(row, keep, c + 1)

\* df.dropna(how='all', axis=1)
dropna_columns(g) ==
    LET keep == {c \in 1..len_columns(g) : \E r \in 1..Len(g) : ~isna(g[r][c])}
    IN  [r \in 1..Len(g) |-> TakeColumns(g[r], keep, 1)]

\* df.map(parse_iso_currency)
map_parse_iso_currency(g) ==
    [r \in 1..Len(g) |-> [c \in 1..Len(g[r]) |-> parse_iso_currency(g[r][c])]]

\* df.fillna('') that fills nothing
fillna_Nothing(g) == g

\* df.fillna('')
fillna(g) ==
    [r \in 1..Len(g) |-> [c \in 1..Len(g[r]) |-> IF isna(g[r][c]) THEN EmptyText ELSE g[r][c]]]

\* the value of a one-element set
Only(S) == CHOOSE x \in S : TRUE

\* lines 193-195: each assignment to df makes a grid of its own
process_dataframe(g) ==
    Only({fillna(mapped) :
            mapped \in {map_parse_iso_currency(trimmed) :
                           trimmed \in {dropna_columns(rows) : rows \in {dropna_rows(g)}}}})

(***************************************************************************)
(* The display table of lines 205 and 221: astype(str).replace('nan', ''). *)
(* A number of the model is a float, written with at least one decimal.    *)
(***************************************************************************)
DigitChar == <<"0", "1", "2", "3", "4", "5", "6", "7", "8", "9">>

RECURSIVE str_int(_)
str_int(k) == IF k < 10 THEN <<DigitChar[k + 1]>> ELSE str_int(k \div 10) \o <<DigitChar[(k % 10) + 1]>>

str_float(n) ==
    LET a == IF n < 0 THEN -n ELSE n
        h == a % Scale
    IN  (IF n < 0 THEN <<"-">> ELSE <<>>) \o str_int(a \div Scale) \o <<".">> \o
        (IF h % 10 = 0 THEN <<DigitChar[(h \div 10) + 1]>>
         ELSE <<DigitChar[(h \div 10) + 1], DigitChar[(h % 10) + 1]>>)

astype_str(c) ==
    IF isinstance_number(c) THEN Text(str_float(c.n))
    ELSE IF isna(c) THEN Text(<<"n", "a", "n">>)
    ELSE c

display(g) ==
    [r \in 1..Len(g) |->
        [c \in 1..Len(g[r]) |->
            LET s == astype_str(g[r][c])
            IN  IF s = Text(<<"n", "a", "n">>) THEN EmptyText ELSE s]]

(***************************************************************************)
(* A sheet parser as one call: the anchor scan, then extract_data for the  *)
(* first and for the second marker, each loop run to its end.              *)
(***************************************************************************)
RECURSIVE extract_data(_, _, _, _, _, _, _)
extract_data(p, g, r, col, d, flag, counter) ==
    IF r >= len_df(g) THEN [dict |-> d, exc |-> "none"]
    ELSE Only({CASE step.ctl = "raise" -> [dict |-> step.dict, exc |-> step.exc]
                 [] step.ctl = "break" -> [dict |-> step.dict, exc |-> "none"]
                 [] step.ctl = "continue" ->
                        extract_data(p, g, r + 1, col, step.dict, step.flag, step.counter) :
               step \in {IF p = "erfolgsrechnung" THEN ErRow(g, r, col, d, flag)
                         ELSE BiRow(g, r, col, d, counter)}})

\* lines 110-113 and 179-182: the call for marker m, skipped without anchor
call_extract_data(p, g, l, m) ==
    IF l[m].row # -1 /\ ~(l[m].row = -1 \/ l[m].col = -1)
    THEN extract_data(p, g, l[m].row, l[m].col, NoDict, FALSE, 0)
    ELSE [dict |-> NoDict, exc |-> "none"]

parse(p, g) ==
    Only({Only({Only({[first |-> a.dict, second |-> b.dict,
                       exc |-> IF a.exc # "none" THEN a.exc ELSE b.exc] :
                      b \in {IF a.exc = "none" THEN call_extract_data(p, g, l, SecondMarker(p))
                             ELSE [dict |-> NoDict, exc |-> "none"]}}) :
                a \in {call_extract_data(p, g, l, FirstMarker(p))}}) :
          l \in {locate(g, FirstMarker(p), SecondMarker(p))}})

parse_bilanz(g) == parse("bilanz", g)
parse_erfolgsrechnung(g) == parse("erfolgsrechnung", g)

(***************************************************************************)
(* Workbooks: up to three sheets written from one layout of rows; a raw    *)
(* row is the anchor cell, the label cell, a note and the amount cell,     *)
(* with missing cells, and a sheet may carry a wholly missing column.      *)
(***************************************************************************)
RawKinds == {"absent", "first", "second", "code", "gap"}

RawCells(kind, r, first, second) ==
    CASE kind = "absent" -> <<Absent, Absent, Absent, Absent>>
      [] kind = "first" -> <<Text(<<first>>), Absent, Note, Amount(r)>>
      [] kind = "second" -> <<Text(<<second>>), Absent, Note, Text(<<"C", "H", "F", " ", "5">>)>>
      [] kind = "code" -> <<Code4, Label(r), Absent, Text(<<"7", ".", "5", " ", "C", "H", "F">>)>>
      [] kind = "gap" -> <<Absent, Absent, Note, Absent>>

\* the row with a missing cell put in after the anchor cell
Widen(cells) == <<cells[1], Absent>> \o Tail(cells)

RawGrid(kinds, wide, p) ==
    [r \in 1..Len(kinds) |->
        LET cells == RawCells(kinds[r], r - 1, FirstMarker(p), SecondMarker(p))
        IN  IF wide THEN Widen(cells) ELSE cells]

SheetNames == {"Bilanz", "Erfolgsrechnung", "Notizen"}
SheetParser(name) == IF name = "Erfolgsrechnung" THEN "erfolgsrechnung" ELSE "bilanz"

Workbooks ==
    {[name \in names |-> RawGrid(kinds, wide, SheetParser(name))] :
        names \in SUBSET SheetNames, kinds \in [1..LoadRows -> RawKinds], wide \in BOOLEAN}

(***************************************************************************)
(* load_financial_data, lines 186-223: the block of each sheet is a step.  *)
(***************************************************************************)
LoadInit ==
    /\ NormIdle
    /\ GridIdle
    /\ UiIdle
    /\ xls \in Workbooks
    /\ processed = << >>
    /\ financial_data = << >>
    /\ lpc = "bilanz"

\* financial_data[key] = v that stores nothing
Store_Nothing(fd, key, v) == fd

\* financial_data[key] = v
Store(fd, key, v) == [k \in DOMAIN fd \cup {key} |-> IF k = key THEN v ELSE fd[k]]

\* lines 202-209
LoadBilanz ==
    /\ lpc = "bilanz"
    /\ IF "Bilanz" \in DOMAIN xls
       THEN \E processed_bilanz_df \in {process_dataframe(xls["Bilanz"])} :
            \E shown \in {Store(financial_data, "Bilanz", display(processed_bilanz_df))} :
            \E res \in {parse_bilanz(processed_bilanz_df)} :
                /\ processed' = Store(processed, "Bilanz", processed_bilanz_df)
                /\ IF res.exc # "none"
                   THEN /\ financial_data' = shown
                        /\ lpc' = "raised"
                   ELSE /\ financial_data' =
                              Store(Store(shown, "Aktiva", res.first), "Passiva", res.second)
                        /\ lpc' = "erfolgsrechnung"
       ELSE /\ lpc' = "erfolgsrechnung"
            /\ UNCHANGED <<processed, financial_data>>
    /\ UNCHANGED xls
    /\ UNCHANGED <<normVars, gridVars, uiVars>>

\* lines 211-221
LoadErfolgsrechnung ==
    /\ lpc = "erfolgsrechnung"
    /\ IF "Erfolgsrechnung" \in DOMAIN xls
       THEN \E processed_erfolgsrechnung_df \in {process_dataframe(xls["Erfolgsrechnung"])} :
            \E res \in {parse_erfolgsrechnung(processed_erfolgsrechnung_df)} :
                /\ processed' = Store(processed, "Erfolgsrechnung", processed_erfolgsrechnung_df)
                /\ IF res.exc # "none"
                   THEN /\ lpc' = "raised"
                        /\ UNCHANGED financial_data
                   ELSE /\ financial_data' =
                              Store(Store(Store(financial_data, "Ertraege", res.first),
                                          "Aufwand", res.second),
                                    "Erfolgsrechnung", display(processed_erfolgsrechnung_df))
                        /\ lpc' = "return"
       ELSE /\ lpc' = "return"
            /\ UNCHANGED <<processed, financial_data>>
    /\ UNCHANGED xls
    /\ UNCHANGED <<normVars, gridVars, uiVars>>

\* line 223
LoadReturn ==
    /\ lpc = "return"
    /\ lpc' = "returned"
    /\ UNCHANGED <<xls, processed, financial_data>>
    /\ UNCHANGED <<normVars, gridVars, uiVars>>

LoadNext == LoadBilanz \/ LoadErfolgsrechnung \/ LoadReturn

SpecLoad == LoadInit /\ [][LoadNext]_vars

(***************************************************************************)
(* load_financial_data as one call, lines 186-223: the mapping built so    *)
(* far, and the exception that left a parser, if any.                      *)
(***************************************************************************)
\* lines 202-209
bilanz_block(wb, fd) ==
    IF "Bilanz" \in DOMAIN wb
    THEN Only({Only({IF res.exc # "none" THEN [exc |-> res.exc, data |-> fd]
                     ELSE [exc |-> "none",
                           data |-> Store(Store(Store(fd, "Bilanz", display(processed_bilanz_df)),
                                                "Aktiva", res.first),
                                          "Passiva", res.second)] :
                     res \in {parse_bilanz(processed_bilanz_df)}}) :
               processed_bilanz_df \in {process_dataframe(wb["Bilanz"])}})
    ELSE [exc |-> "none", data |-> fd]

\* lines 211-221
erfolgsrechnung_block(wb, fd) ==
    IF "Erfolgsrechnung" \in DOMAIN wb
    THEN Only({Only({IF res.exc # "none" THEN [exc |-> res.exc, data |-> fd]
                     ELSE [exc |-> "none",
                           data |-> Store(Store(Store(fd, "Ertraege", res.first),
                                                "Aufwand", res.second),
                                          "Erfolgsrechnung",
                                          display(processed_erfolgsrechnung_df))] :
                     res \in {parse_erfolgsrechnung(processed_erfolgsrechnung_df)}}) :
               processed_erfolgsrechnung_df \in {process_dataframe(wb["Erfolgsrechnung"])}})
    ELSE [exc |-> "none", data |-> fd]

load_financial_data(wb) ==
    Only({IF b.exc # "none" THEN b ELSE erfolgsrechnung_block(wb, b.data) :
          b \in {bilanz_block(wb, << >>)}})

(***************************************************************************)
(* The Streamlit session of main.py.  Every widget event runs the script   *)
(* once more from the top with the session state kept; a step of the model *)
(* is one event with the script run it starts.  A widget that a run does   *)
(* not draw loses its value.                                               *)
(***************************************************************************)
None == [some |-> FALSE, v |-> << >>]
Some(x) == [some |-> TRUE, v |-> x]

\* st.secrets["credentials"] and what a user may type
Credentials == {<<"u", "p">>}
Typed == {<<"u", "p">>, <<"u", "q">>, <<"v", "p">>}

\* lines 33-38
authenticate_user(username, password) ==
    \E user_creds \in Credentials : user_creds[1] = username /\ user_creds[2] = password

\* the workbooks a user may put into the Excel uploader: no known sheet,
\* a balance sheet, both sheets; written well, or so that a parser raises
UploadLayouts == {<<"first", "code", "second">>, <<"first", "first", "first">>}
UploadSheets == {{}, {"Notizen"}, {"Bilanz"}, {"Bilanz", "Erfolgsrechnung"}}
UploadFiles ==
    {[name \in names |-> RawGrid(kinds, FALSE, SheetParser(name))] :
        names \in UploadSheets, kinds \in UploadLayouts}
\* the content of two pictures
UploadImages == {<<"a">>, <<"b">>}

\* the truth value Python gives an optional value: None and {} are false
bool(x) == x.some /\ DOMAIN x.v # {}

\* lines 9-16
Defaults ==
    [authenticated |-> FALSE, report_generated |-> FALSE,
     full_financial_data |-> None, uploaded_image |-> None]

\* lines 120-136 with the condition of line 121 dropped
generate_Always(s, clicked) ==
    IF clicked THEN [s EXCEPT !.report_generated = TRUE] ELSE s

\* lines 120-136: the button "Bericht generieren"
generate(s, clicked) ==
    IF clicked /\ bool(s.full_financial_data) /\ s.uploaded_image.some
    THEN [s EXCEPT !.report_generated = TRUE]
    ELSE s

\* lines 72-201: one run of the script with the session state s, the files
\* the two uploaders hold and the state of the generate button; line 111 is
\* looked up in workbooks
main(s, uploaded_report, uploaded_image, clicked) ==
    IF ~s.authenticated THEN [session |-> s, page |-> "login"]
    ELSE Only({
        IF loaded.exc # "none" THEN [session |-> s, page |-> "error"]
        ELSE Only({[session |-> after, page |-> IF after.report_generated THEN "preview" ELSE "info"] :
                   after \in {generate([s EXCEPT
                                  !.full_financial_data =
                                      IF uploaded_report.some THEN Some(loaded.data) ELSE @,
                                  !.uploaded_image =
                                      IF uploaded_image.some THEN uploaded_image ELSE @],
                               clicked)}}) :
        loaded \in {IF uploaded_report.some THEN workbooks[uploaded_report.v]
                    ELSE [exc |-> "none", data |-> << >>]}})

UiInit ==
    /\ NormIdle
    /\ GridIdle
    /\ LoadIdle
    /\ session_state = Defaults
    /\ report_uploader = None
    /\ image_uploader = None
    /\ page = "login"
    /\ event = "none"
    /\ workbooks = [wb \in UploadFiles |-> load_financial_data(wb)]

\* the script run that an event starts, with the widgets as the event left
\* them; the login page draws neither uploader
Run(s, uploaded_report, uploaded_image, clicked) ==
    \E out \in {main(s, uploaded_report, uploaded_image, clicked)} :
        /\ session_state' = out.session
        /\ page' = out.page
        /\ report_uploader' = IF out.page = "login" THEN None ELSE uploaded_report
        /\ image_uploader' = IF out.page = "login" THEN None ELSE uploaded_image
        /\ UNCHANGED workbooks
        /\ UNCHANGED <<normVars, gridVars, loadVars>>

\* lines 40-50: the button "Login"; st.rerun() runs the script once more
Login ==
    /\ page = "login"
    /\ event' = "login"
    /\ \E typed \in Typed :
          Run([session_state EXCEPT
                  !.authenticated = IF authenticate_user(typed[1], typed[2]) THEN TRUE ELSE @],
              None, None, FALSE)

\* lines 107 and 110-111: a file is put into the Excel uploader, or taken out
UploadReport ==
    /\ page # "login"
    /\ event' = "report_uploader"
    /\ \E file \in {Some(wb) : wb \in UploadFiles} \cup {None} :
          Run(session_state, file, image_uploader, FALSE)

\* lines 108 and 113-114: a file is put into the image uploader, or taken out
UploadImage ==
    /\ page # "login"
    /\ event' = "image_uploader"
    /\ \E file \in {Some(img) : img \in UploadImages} \cup {None} :
          Run(session_state, report_uploader, file, FALSE)

\* lines 120-136: the button is drawn by a run that got past line 111
Generate ==
    /\ page \in {"info", "preview"}
    /\ event' = "generate"
    /\ Run(session_state, report_uploader, image_uploader, TRUE)

\* lines 57-70 and 143-190: a field of the editor is changed
Edit ==
    /\ page = "preview"
    /\ event' = "edit"
    /\ Run(session_state, report_uploader, image_uploader, FALSE)

\* lines 52-55: the callback of the button "Logout"
logout(s) == [s EXCEPT !.authenticated = FALSE, !.report_generated = FALSE]

\* line 104: the button is drawn by every run of a logged-in session
Logout ==
    /\ page # "login"
    /\ event' = "logout"
    /\ Run(logout(session_state), report_uploader, image_uploader, FALSE)

UiNext == Login \/ UploadReport \/ UploadImage \/ Generate \/ Edit \/ Logout

SpecUI == UiInit /\ [][UiNext]_vars

(***************************************************************************)
(* Properties of parse_iso_currency, checked under SpecNorm.               *)
(***************************************************************************)

\* a word of exactly three uppercase letters starts at p
CodeToken(s, p) ==
    /\ p + 2 <= Len(s)
    /\ {s[p], s[p + 1], s[p + 2]} \subseteq Upper
    /\ (p > 1 => s[p - 1] \notin WordChars)
    /\ (p + 3 <= Len(s) => s[p + 3] \notin WordChars)

\* a numeric character follows the code at p: blanks, an optional minus, blanks
NumericAfter(s, p) ==
    \E q \in (p + 3)..Len(s) :
        /\ s[q] \in NumChars
        /\ \E d \in (p + 3)..q :
              /\ \A k \in (p + 3)..(d - 1) : s[k] = " "
              /\ \/ d = q
                 \/ s[d] = "-" /\ \A k \in (d + 1)..(q - 1) : s[k] = " "

\* a numeric character precedes the code at p, only blanks between
NumericBefore(s, p) ==
    \E e \in 1..(p - 1) :
        /\ s[e] \in NumChars
        /\ \A k \in (e + 1)..(p - 1) : s[k] = " "

CurrencyAdjacent(s) ==
    \E p \in 1..Len(s) : CodeToken(s, p) /\ (NumericAfter(s, p) \/ NumericBefore(s, p))

\* C2: a European-written amount ("." thousands, "," decimals) beside a
\* currency code, at least one blank apart, is returned as the amount it was
\* written for, as the US/Swiss-written one is.
NormC2_EuropeanAmount ==
    (npc = "done" /\ fmt.conv = "EU" /\ fmt.gap >= 1) => result = Num(fmt.amount)

NormC10_Identity ==
    npc = "done" =>
        /\ ~isinstance_str(value) => result = value
        /\ (isinstance_str(value) /\ ~CurrencyAdjacent(value.s)) => result = value
        /\ parse_iso_currency(result) = result

\* C10 witness: a text with three uppercase letters glued to a digit came back
NormC10_Witness ==
    /\ npc = "done"
    /\ value = Text(<<"C", "C", "C", "1">>)
    /\ ~CurrencyAdjacent(value.s)
    /\ result = value

(***************************************************************************)
(* Properties of the two parsers, checked under Spec.                      *)
(***************************************************************************)
Positions(g) == (0..(len_df(g) - 1)) \X (0..(len_columns(g) - 1))

\* the cells of the grid that are text containing the marker
Occurrences(g, m) ==
    {q \in Positions(g) : isinstance_str(iloc(g, q[1], q[2])) /\ contains(iloc(g, q[1], q[2]).s, m)}

\* the last of a set of cells in row-major order
LastOf(g, qs) ==
    CHOOSE q \in qs : \A o \in qs : o[1] < q[1] \/ (o[1] = q[1] /\ o[2] <= q[2])

\* the anchor-column cell of row r of the running extract_data call
AnchorCell(r) == iloc(df, r, loc[cur].col)
IsRuleB(c) == IsRuleBText(c) \/ IsRuleBNumber(c)
Looping(p) == parser = p /\ pc = "loop"
\* the loop executes break in this step
Breaks == stopped_at'[cur] = i
\* once a call has executed break its mapping stays as it is
StoppedIsFinal ==
    \A m \in MarkersOf(parser) : stopped_at[m] # -1 => data_dict'[m] = data_dict[m]

\* C1: at a Rule A or Rule B row whose amount column anchor.col+3 is outside
\* the grid, the iteration raises nothing and adds no entry.
GridC1_ShortRowSkipped ==
    [][(/\ pc = "loop"
        /\ ~InRange(df, i, loc[cur].col + 3)
        /\ (IsRuleA(AnchorCell(i)) \/ IsRuleB(AnchorCell(i))))
       => (pc' # "raised" /\ data_dict' = data_dict)]_vars

\* C3 as claimed: the income-statement loop breaks at row r exactly when the
\* anchor-column cell of r is blank and row r-1 is a Rule B row.
GridC3_StopsRightAfterRuleB ==
    [][Looping("erfolgsrechnung")
       => (Breaks <=> (/\ is_blank(AnchorCell(i))
                        /\ i > loc[cur].row
                        /\ IsRuleB(AnchorCell(i - 1))))]_vars

\* the last row before r, from the anchor row on, that is a Rule A or Rule B row
LastClassified(r) ==
    LET rows == {j \in loc[cur].row..(r - 1) :
                    IsRuleA(AnchorCell(j)) \/ IsRuleB(AnchorCell(j))}
    IN  IF rows = {} THEN -1 ELSE CHOOSE j \in rows : \A k \in rows : k <= j

\* C3 as amended: the income-statement loop breaks at row r exactly when the
\* anchor-column cell of r is blank and the last Rule A or Rule B row before r
\* is a Rule B row (a row that matches neither rule changes nothing); after
\* the break no later row adds an entry.
GridC3_StopsAfterLastRuleB ==
    [][/\ Looping("erfolgsrechnung")
          => (Breaks <=> (/\ is_blank(AnchorCell(i))
                           /\ LastClassified(i) # -1
                           /\ IsRuleB(AnchorCell(LastClassified(i)))))
       /\ StoppedIsFinal]_vars

\* C3 witness: the loop broke at a blank row that follows a row matching
\* neither rule, with a row of content left below it
GridC3_Witness ==
    /\ parser = "erfolgsrechnung"
    /\ \E m \in MarkersOf(parser) :
          LET r == stopped_at[m]
              c == loc[m].col
          IN  /\ r > 0 /\ r + 1 < len_df(df)
              /\ ~is_blank(iloc(df, r - 1, c))
              /\ ~IsRuleB(iloc(df, r - 1, c))
              /\ ~is_blank(iloc(df, r + 1, c))
              /\ data_dict[m] # NoDict

\* C4: the balance-sheet loop breaks at row r exactly when r is the third of
\* three consecutive blank rows of the anchor column (so one or two blank rows
\* do not end it), and after the break no row adds an entry.
GridC4_StopsAtThirdBlank ==
    [][/\ Looping("bilanz")
          => (Breaks <=> (/\ i - 2 > loc[cur].row
                           /\ \A j \in (i - 2)..i : is_blank(AnchorCell(j))))
       /\ StoppedIsFinal]_vars

\* C4 witness: the loop broke at the third blank row, with an entry from
\* above the blank rows and a Rule B row left below them
GridC4_Witness ==
    /\ parser = "bilanz"
    /\ pc = "returned"
    /\ \E m \in MarkersOf(parser) :
          /\ stopped_at[m] = loc[m].row + 3
          /\ stopped_at[m] + 1 < len_df(df)
          /\ IsRuleB(iloc(df, stopped_at[m] + 1, loc[m].col))
          /\ Cardinality(DOMAIN data_dict[m]) = 1

\* C5: for a marker that no text cell of the grid contains, no anchor is
\* recorded, its extract_data loop never runs (so it raises nothing) and its
\* mapping stays empty.
GridC5_MissingMarker ==
    \A m \in MarkersOf(parser) :
        Occurrences(df, m) = {} =>
            /\ loc[m] = NoLoc
            /\ data_dict[m] = NoDict
            /\ stopped_at[m] = -1
            /\ ~(cur = m /\ pc \in {"loop", "raised"})

\* C5 witness: the parser returned, one marker missing, the other with entries
GridC5_Witness ==
    /\ pc = "returned"
    /\ \E m, o \in MarkersOf(parser) :
          /\ Occurrences(df, m) = {}
          /\ data_dict[m] = NoDict
          /\ data_dict[o] # NoDict

\* C6: at a Rule B row whose label cell (anchor.col+1) is blank or not a
\* text, the iteration adds nothing to the mapping and raises nothing.
GridC6_BadLabelSkipped ==
    [][(/\ pc = "loop"
        /\ IsRuleB(AnchorCell(i))
        /\ InRange(df, i, loc[cur].col + 1)
        /\ (\/ is_blank(iloc(df, i, loc[cur].col + 1))
            \/ ~isinstance_str(iloc(df, i, loc[cur].col + 1))))
       => (pc' # "raised" /\ data_dict' = data_dict)]_vars

\* C7: after the anchor scan, a marker that occurs in more than one text
\* cell is anchored at its last occurrence in row-major order.
GridC7_LastOccurrence ==
    pc # "locate" =>
        \A m \in MarkersOf(parser) :
            Cardinality(Occurrences(df, m)) > 1 =>
                LET q == LastOf(df, Occurrences(df, m))
                IN  loc[m] = [row |-> q[1], col |-> q[2]]

\* C8: on a rectangular grid of empty-text, text and number cells no
\* exception leaves parse_erfolgsrechnung or parse_bilanz.
GridC8_NoException == pc # "raised"

(***************************************************************************)
(* Row classification, checked under Spec.                                 *)
(***************************************************************************)
AllDigits(s) == Len(s) > 0 /\ \A k \in 1..Len(s) : s[k] \in Digits

\* an account-code cell: a text of exactly four digits (as written, or once
\* its surrounding blanks are trimmed) or a number in [1000, 10000)
RuleBCell(c, trimmed) ==
    \/ /\ isinstance_str(c)
       /\ LET s == IF trimmed THEN strip(c.s) ELSE c.s
          IN  Len(s) = 4 /\ AllDigits(s)
    \/ /\ isinstance_number(c)
       /\ c.n >= 1000 * Scale
       /\ c.n < 10000 * Scale

\* a number or an all-digit text that is not an account code
OtherCodeCell(c, trimmed) ==
    /\ ~is_blank(c)
    /\ ~RuleBCell(c, trimmed)
    /\ \/ isinstance_number(c)
       \/ isinstance_str(c) /\ AllDigits(IF trimmed THEN strip(c.s) ELSE c.s)

LabelCell(r) == iloc(df, r, loc[cur].col + 1)
AmountCell(r) == iloc(df, r, loc[cur].col + 3)

\* the mapping d with the entry of a row: label -> the amount cell as a
\* number, or d itself when the amount cell is no number
Harvested(d, label, amount) ==
    LET f == to_float(amount)
    IN  IF f.ok THEN [k \in DOMAIN d \cup {label} |-> IF k = label THEN f.v ELSE d[k]]
        ELSE d

\* what one iteration does at an account-code row and at the rows next to
\* the boundaries of the rule
RuleBContract(trimmed) ==
    pc = "loop" =>
        LET c == AnchorCell(i)
        IN  /\ (/\ RuleBCell(c, trimmed)
                /\ InRange(df, i, loc[cur].col + 3)
                /\ isinstance_str(LabelCell(i)))
               => /\ pc' # "raised"
                  /\ data_dict'[cur] =
                        Harvested(data_dict[cur], strip(LabelCell(i).s), AmountCell(i))
                  /\ parser = "erfolgsrechnung" => last_was_numeric'
            /\ OtherCodeCell(c, trimmed)
               => /\ pc' # "raised"
                  /\ data_dict' = data_dict
                  /\ last_was_numeric' = last_was_numeric
            /\ (parser = "erfolgsrechnung" /\ ~last_was_numeric /\ last_was_numeric')
               => RuleBCell(c, trimmed)

RuleACell(c, trimmed) ==
    /\ isinstance_str(c)
    /\ ~is_blank(c)
    /\ ~AllDigits(IF trimmed THEN strip(c.s) ELSE c.s)

\* what one iteration does at a narrative row, and at a blank row right
\* below one
RuleAContract(trimmed) ==
    pc = "loop" =>
        LET c == AnchorCell(i)
        IN  /\ (RuleACell(c, trimmed) /\ InRange(df, i, loc[cur].col + 3))
               => /\ pc' # "raised"
                  /\ data_dict'[cur] = Harvested(data_dict[cur], strip(c.s), AmountCell(i))
                  /\ parser = "erfolgsrechnung" => ~last_was_numeric'
            /\ (/\ parser = "erfolgsrechnung"
                /\ is_blank(c)
                /\ i > loc[cur].row
                /\ RuleACell(AnchorCell(i - 1), trimmed))
               => (~Breaks /\ pc' # "raised")

Finished(m) ==
    \/ pc = "returned"
    \/ m = FirstMarker(parser) /\ cur = SecondMarker(parser)

\* the rows the extract_data call of marker m has gone through without
\* stopping at them: from the anchor row to the current row, the stop row
\* or the end of the grid
Scanned(m) ==
    IF loc[m] = NoLoc THEN {}
    ELSE IF Finished(m)
         THEN loc[m].row..((IF stopped_at[m] # -1 THEN stopped_at[m] ELSE len_df(df)) - 1)
    ELSE IF cur = m /\ pc \in {"loop", "raised"} THEN loc[m].row..(i - 1)
    ELSE {}

\* the label row r resolves to in the anchor column of marker m
LabelOf(m, r) ==
    LET c == iloc(df, r, loc[m].col)
    IN  IF RuleACell(c, TRUE) THEN strip(c.s) ELSE strip(iloc(df, r, loc[m].col + 1).s)

AmountOf(m, r) == to_float(iloc(df, r, loc[m].col + 3)).v

\* row r has a label and an amount in the anchor column of marker m
Parses(m, r) ==
    LET c == iloc(df, r, loc[m].col)
    IN  /\ InRange(df, r, loc[m].col + 3)
        /\ \/ RuleACell(c, TRUE)
           \/ RuleBCell(c, TRUE) /\ isinstance_str(iloc(df, r, loc[m].col + 1))
        /\ to_float(iloc(df, r, loc[m].col + 3)).ok

HarvestedRows(m) == {r \in Scanned(m) : Parses(m, r)}

\* the harvested rows of marker m that resolve to label k
RowsOf(m, k) == {r \in HarvestedRows(m) : LabelOf(m, r) = k}

Latest(rows) == CHOOSE r \in rows : \A o \in rows : o <= r

\* C13: each label of a mapping stands for the harvested rows that resolve
\* to it and holds the amount of the latest of them in scan order; the
\* mapping never has more keys than rows were harvested.
GridC13_LaterRowWins ==
    [](\A m \in MarkersOf(parser) :
        \A harvested \in {HarvestedRows(m)} :
            /\ \A k \in DOMAIN data_dict[m] :
                  \A rows \in {{r \in harvested : LabelOf(m, r) = k}} :
                      /\ rows # {}
                      /\ data_dict[m][k] = AmountOf(m, Latest(rows))
            /\ Cardinality(DOMAIN data_dict[m]) <= Cardinality(harvested))

\* C13 witness: a returned mapping holds one key for two harvested rows of
\* the same label and different amounts, with the amount of the later row
GridC13_Witness ==
    /\ pc = "returned"
    /\ \E m \in MarkersOf(parser) :
          \E k \in DOMAIN data_dict[m] :
              \E a, b \in RowsOf(m, k) :
                  /\ a < b
                  /\ b = Latest(RowsOf(m, k))
                  /\ AmountOf(m, a) # AmountOf(m, b)
                  /\ data_dict[m][k] = AmountOf(m, b)
                  /\ Cardinality(DOMAIN data_dict[m]) < Cardinality(HarvestedRows(m))

(***************************************************************************)
(* Properties of load_financial_data, checked under SpecLoad.              *)
(***************************************************************************)
\* the result keys of the mappings of a sheet
FamilyKeys(name) ==
    IF name = "Bilanz" THEN {"Aktiva", "Passiva"}
    ELSE IF name = "Erfolgsrechnung" THEN {"Ertraege", "Aufwand"}
    ELSE {}

\* a mapping from trimmed labels to amounts, possibly empty
IsMapping(d) == \A k \in DOMAIN d : k = strip(k) /\ d[k] \in Int

\* the block of a sheet that the workbook does not have does nothing
SkipsAbsentSheet ==
    /\ (lpc = "bilanz" /\ "Bilanz" \notin DOMAIN xls)
          => (lpc' = "erfolgsrechnung" /\ financial_data' = financial_data)
    /\ (lpc = "erfolgsrechnung" /\ "Erfolgsrechnung" \notin DOMAIN xls)
          => (lpc' = "return" /\ financial_data' = financial_data)

\* C14 as claimed: whatever the workbook, the returned mapping has the keys
\* "Aktiva", "Passiva", "Erträge" and "Aufwand", each a label -> amount
\* mapping, empty for the family of a sheet that the workbook does not have.
LoadC14_FourKeysAlways ==
    lpc = "returned" =>
        \A name \in {"Bilanz", "Erfolgsrechnung"} :
            \A key \in FamilyKeys(name) :
                /\ key \in DOMAIN financial_data
                /\ IsMapping(financial_data[key])
                /\ name \notin DOMAIN xls => financial_data[key] = NoDict

\* C14 as amended: the returned mapping has the two keys of a family exactly
\* when the sheet of the family is in the workbook, each a label -> amount
\* mapping that may be empty; the block of an absent sheet is skipped
\* without raising and stores nothing.
LoadC14_KeysOfPresentSheets ==
    /\ [](lpc = "returned" =>
            \A name \in {"Bilanz", "Erfolgsrechnung"} :
                \A key \in FamilyKeys(name) :
                    /\ key \in DOMAIN financial_data <=> name \in DOMAIN xls
                    /\ key \in DOMAIN financial_data => IsMapping(financial_data[key]))
    /\ [][SkipsAbsentSheet]_vars

\* C14 witness: a workbook without "Bilanz" returned the income mappings,
\* with entries, and no balance-sheet key
LoadC14_Witness ==
    /\ lpc = "returned"
    /\ "Bilanz" \notin DOMAIN xls
    /\ "Erfolgsrechnung" \in DOMAIN xls
    /\ DOMAIN financial_data = {"Ertraege", "Aufwand", "Erfolgsrechnung"}
    /\ financial_data["Ertraege"] # NoDict
    /\ financial_data["Aufwand"] # NoDict

\* the rows, and the columns, of a raw grid that hold a cell that is not missing
KeptRows(g) == {r \in 1..Len(g) : \E c \in 1..Len(g[r]) : ~isna(g[r][c])}
KeptColumns(g) == {c \in 1..len_columns(g) : \E r \in KeptRows(g) : ~isna(g[r][c])}
\* the k-th smallest element of a set of numbers
Nth(S, k) == CHOOSE x \in S : Cardinality({y \in S : y < x}) = k - 1

\* C15: the processed grid is the raw grid without its wholly missing rows
\* and without the columns missing in every remaining row, the other rows and
\* columns in their order, each cell normalized and each missing cell ''.
LoadC15_TrimAndFill ==
    \A name \in DOMAIN processed :
        LET raw == xls[name]
            out == processed[name]
        IN  /\ Len(out) = Cardinality(KeptRows(raw))
            /\ \A k \in 1..Len(out) :
                  /\ Len(out[k]) = Cardinality(KeptColumns(raw))
                  /\ \A j \in 1..Len(out[k]) :
                        LET cell == raw[Nth(KeptRows(raw), k)][Nth(KeptColumns(raw), j)]
                        IN  /\ ~isna(out[k][j])
                            /\ out[k][j] = IF isna(cell) THEN EmptyText
                                           ELSE parse_iso_currency(cell)

\* C15 witness: a grid lost a missing row and a missing column from its
\* middle, and a missing cell of a kept row and column became ''
LoadC15_Witness ==
    /\ "Bilanz" \in DOMAIN processed
    /\ LET raw == xls["Bilanz"]
           out == processed["Bilanz"]
       IN  /\ KeptRows(raw) = {1, 3}
           /\ KeptColumns(raw) = {1, 3, 4, 5}
           /\ isna(raw[1][3])
           /\ Len(out) = 2 /\ Len(out[1]) = 4
           /\ out[1][2] = EmptyText
           /\ out[2][4] = Num(750)

(***************************************************************************)
(* More properties of the two parsers, checked under Spec.                 *)
(***************************************************************************)
\* cell a is cell b or comes after it in row-major order
NotBefore(a, b) == a.row > b[1] \/ (a.row = b[1] /\ a.col >= b[2])

\* C16: after the anchor scan, a text cell that contains both markers of
\* the family has overwritten both anchors: each of the two anchors is that
\* cell or a later one.
GridC16_BothMarkersBothAnchors ==
    pc # "locate" =>
        \A q \in Occurrences(df, FirstMarker(parser)) \cap Occurrences(df, SecondMarker(parser)) :
            \A m \in MarkersOf(parser) : NotBefore(loc[m], q)

\* C17: every entry of a mapping is the label and the amount of a row
\* between the anchor row and the stop row (or the end of the grid), read in
\* the anchor column of its marker; and every such row with a label and an
\* amount has its label in the mapping.
GridC17_EntriesFromTheSection ==
    \A m \in MarkersOf(parser) :
        \A section \in {{r \in Scanned(m) : Parses(m, r)}} :
            /\ \A k \in DOMAIN data_dict[m] :
                  \E r \in section :
                      /\ LabelOf(m, r) = k
                      /\ AmountOf(m, r) = data_dict[m][k]
            /\ \A r \in section : LabelOf(m, r) \in DOMAIN data_dict[m]

\* C17 witness: the parser returned entries for an anchor in column 1 and
\* for an anchor in column 0, the latter with a row of label and amount
\* above its anchor and another below the row where its loop stopped
GridC17_Witness ==
    /\ pc = "returned"
    /\ \E m, o \in MarkersOf(parser) :
          /\ loc[m].col = 1 /\ data_dict[m] # NoDict
          /\ loc[o].col = 0 /\ data_dict[o] # NoDict
          /\ \E r \in 0..(loc[o].row - 1) : Parses(o, r)
          /\ stopped_at[o] # -1
          /\ \E r \in (stopped_at[o] + 1)..(len_df(df) - 1) : Parses(o, r)

\* what an iteration does beside the stop rule: its entry, or its exception
Outcome(step) == [ctl |-> step.ctl, dict |-> step.dict, exc |-> step.exc]

\* the cells an iteration is compared at: the whole grid when a loop starts,
\* the row about to be read, in every column, while it runs
Compared ==
    IF i = loc[cur].row THEN Positions(df)
    ELSE {q \in Positions(df) : q[1] = i}

\* C18: at every non-blank cell of the grid taken as the anchor-column cell
\* of its row, an iteration of the income-statement loop and one of the
\* balance-sheet loop do the same: the same entry, or none, or the same
\* exception.
GridC18_SameClassification ==
    [](pc = "loop" =>
        \A q \in Compared :
            ~is_blank(iloc(df, q[1], q[2])) =>
                Outcome(ErRow(df, q[1], q[2], data_dict[cur], last_was_numeric))
                    = Outcome(BiRow(df, q[1], q[2], data_dict[cur], empty_row_counter)))

\* C18 witness: the balance-sheet loop has harvested the row of the numeric
\* code 1000 with the amount " 7", as the income-statement loop does
GridC18_Witness ==
    /\ parser = "bilanz"
    /\ pc = "loop"
    /\ i - 1 >= loc[cur].row
    /\ AnchorCell(i - 1) = Num(1000 * Scale)
    /\ AmountCell(i - 1) = Text(<<" ", "7">>)
    /\ strip(LabelCell(i - 1).s) \in DOMAIN data_dict[cur]
    /\ data_dict[cur][strip(LabelCell(i - 1).s)] = 7 * Scale
    /\ ErRow(df, i - 1, loc[cur].col, NoDict, FALSE).dict
          = BiRow(df, i - 1, loc[cur].col, NoDict, 0).dict
    /\ ErRow(df, i - 1, loc[cur].col, NoDict, FALSE).dict # NoDict

\* the number of consecutive blank rows of the anchor column that end at row
\* r, counted from the anchor row of the running call
RECURSIVE BlankRun(_)
BlankRun(r) ==
    IF r < loc[cur].row \/ ~is_blank(AnchorCell(r)) THEN 0 ELSE 1 + BlankRun(r - 1)

\* C19: in the balance-sheet extractor the blank-row counter is always one
\* of 0, 1, 2, 3 and, while the loop runs, below 3 and equal to the number of
\* consecutive blank rows ending at the row just read; it becomes 1 only at
\* a blank row below a non-blank row, every non-blank row resets it to 0,
\* and the loop breaks exactly when it reaches 3.
GridC19_BlankCounter ==
    /\ [](parser = "bilanz" =>
            /\ empty_row_counter \in 0..3
            /\ pc = "loop" => (empty_row_counter < 3 /\ empty_row_counter = BlankRun(i - 1)))
    /\ [][Looping("bilanz") =>
            /\ (empty_row_counter' = 1 /\ empty_row_counter # 1)
                  => (is_blank(AnchorCell(i)) /\ ~is_blank(AnchorCell(i - 1)))
            /\ ~is_blank(AnchorCell(i)) => empty_row_counter' = 0
            /\ is_blank(AnchorCell(i)) => empty_row_counter' = empty_row_counter + 1
            /\ Breaks <=> empty_row_counter' = 3]_vars

\* C19 witness: the counter went to 2 over two blank rows and was reset by
\* the row below them, and the loop is still running
GridC19_Witness ==
    /\ parser = "bilanz"
    /\ pc = "loop"
    /\ i - 4 >= loc[cur].row
    /\ is_blank(AnchorCell(i - 3))
    /\ is_blank(AnchorCell(i - 2))
    /\ ~is_blank(AnchorCell(i - 1))
    /\ empty_row_counter = 0

(***************************************************************************)
(* More properties of parse_iso_currency, checked under SpecNorm.          *)
(***************************************************************************)
Without(s, chars) == SelectSeq(s, LAMBDA ch : ch \notin chars)

\* a decimal literal: an optional minus, digits with at most one point among
\* them, one digit at least
IsDecimal(s, point) ==
    LET body == IF s # <<>> /\ s[1] = "-" THEN Tail(s) ELSE s
    IN  /\ \A k \in 1..Len(body) : body[k] \in Digits \cup {point}
        /\ \E k \in 1..Len(body) : body[k] \in Digits
        /\ Cardinality({k \in 1..Len(body) : body[k] = point}) <= 1

\* the token reads as a number with "'" and "," as thousands separators
ParsesUS(token) == IsDecimal(Without(token, {"'", ",", " "}), ".")
\* the token reads as a number with "." thousands separators and a decimal ","
ParsesEuropean(token) == IsDecimal(Without(token, {"'", ".", " "}), ",")

\* C20: when the numeric token found beside the currency code reads as a
\* number under neither convention, the text is returned unchanged.
NormC20_NeitherParses ==
    (/\ npc = "done"
     /\ number_str # <<>>
     /\ ~ParsesUS(number_str)
     /\ ~ParsesEuropean(number_str))
    => result = value

\* C20 witness: "1.2.3,4,5 CHF", several points and several commas, came back
NormC20_Witness ==
    /\ npc = "done"
    /\ value = Text(<<"1", ".", "2", ".", "3", ",", "4", ",", "5", " ", "C", "H", "F">>)
    /\ number_str = <<"1", ".", "2", ".", "3", ",", "4", ",", "5">>
    /\ ~ParsesUS(number_str)
    /\ ~ParsesEuropean(number_str)
    /\ result = value

(***************************************************************************)
(* Rows that match no rule, checked under Spec.                            *)
(***************************************************************************)
\* a non-blank cell that is neither a narrative cell nor an account code
Unclassified(c) == ~is_blank(c) /\ ~RuleACell(c, TRUE) /\ ~RuleBCell(c, TRUE)

\* the last narrative or account-code row of the running call before row r
\* is an account-code row
AfterRuleB(r) ==
    \E j \in loc[cur].row..(r - 1) :
        /\ RuleBCell(AnchorCell(j), TRUE)
        /\ \A k \in (j + 1)..(r - 1) :
              ~RuleACell(AnchorCell(k), TRUE) /\ ~RuleBCell(AnchorCell(k), TRUE)

\* C21: in the income-statement loop a non-blank row that matches neither
\* Rule A nor Rule B (an all-digit text of another length than 4, a number
\* outside [1000, 10000)) adds no entry, raises nothing, does not end the
\* loop and leaves the numeric flag as it was; a blank row right below such
\* a row ends the loop exactly when the last Rule A or Rule B row before it
\* was a Rule B row.
GridC21_UnclassifiedRow ==
    [][Looping("erfolgsrechnung") =>
          /\ Unclassified(AnchorCell(i))
             => /\ OtherCodeCell(AnchorCell(i), TRUE)
                /\ pc' # "raised"
                /\ ~Breaks
                /\ data_dict' = data_dict
                /\ last_was_numeric' = last_was_numeric
          /\ (/\ is_blank(AnchorCell(i))
              /\ i > loc[cur].row
              /\ Unclassified(AnchorCell(i - 1)))
             => (Breaks <=> AfterRuleB(i - 1))]_vars

\* C21 witness: below an account-code row the loop went through the row of
\* the text "12", which left the mapping and the raised flag as they were,
\* and it stopped at the blank row under it
GridC21_Witness ==
    /\ parser = "erfolgsrechnung"
    /\ \E m \in MarkersOf(parser) :
          LET r == stopped_at[m]
              c == loc[m].col
          IN  /\ r - 2 > loc[m].row
              /\ iloc(df, r - 1, c) = Text(<<"1", "2">>)
              /\ iloc(df, r - 2, c) = Code4
              /\ is_blank(iloc(df, r, c))
              /\ strip(iloc(df, r - 1, c + 1).s) \notin DOMAIN data_dict[m]
              /\ strip(iloc(df, r - 2, c + 1).s) \in DOMAIN data_dict[m]

(***************************************************************************)
(* The stop-rule state at rows whose amount is no number, under Spec.      *)
(***************************************************************************)
\* float(value_cell) raises ValueError or TypeError at row r
AmountFails(r) == ~to_float(AmountCell(r)).ok

\* row r raises nothing on the way to its amount cell
ReadsAmount(r) ==
    /\ InRange(df, r, loc[cur].col + 3)
    /\ RuleBCell(AnchorCell(r), TRUE) => isinstance_str(LabelCell(r))

\* C22: the stop-rule state is updated whether or not the amount coerced.
\* In the income-statement loop a Rule B row sets the numeric flag and a
\* Rule A row clears it, also when the amount cell is no number and no
\* entry is made; in the balance-sheet loop every non-blank row leaves the
\* blank counter at 0, with or without an entry.
GridC22_StopStateWithoutAmount ==
    [][pc = "loop" =>
          /\ (/\ parser = "erfolgsrechnung"
              /\ ReadsAmount(i))
             => /\ pc' # "raised"
                /\ RuleBCell(AnchorCell(i), TRUE) => last_was_numeric'
                /\ RuleACell(AnchorCell(i), TRUE) => ~last_was_numeric'
                /\ AmountFails(i) => data_dict' = data_dict
          /\ (parser = "bilanz" /\ ~is_blank(AnchorCell(i)))
             => /\ empty_row_counter' = 0
                /\ (pc' # "raised" /\ AmountFails(i)) => data_dict' = data_dict]_vars

\* C22 witness: right below its anchor row the income-statement loop read
\* the account-code row whose amount cell is empty, made no entry for it,
\* and stopped at the blank row under it
GridC22_Witness ==
    /\ parser = "erfolgsrechnung"
    /\ \E m \in MarkersOf(parser) :
          LET r == stopped_at[m]
              c == loc[m].col
          IN  /\ r - 2 = loc[m].row
              /\ is_blank(iloc(df, r, c))
              /\ RuleBCell(iloc(df, r - 1, c), TRUE)
              /\ iloc(df, r - 1, c + 3) = EmptyText
              /\ strip(iloc(df, r - 1, c + 1).s) \notin DOMAIN data_dict[m]

(***************************************************************************)
(* The anchor row, checked under Spec.                                     *)
(***************************************************************************)
\* the cell that holds marker m, and the amount cell of its row
MarkerCell(m) == iloc(df, loc[m].row, loc[m].col)
MarkerAmount(m) == iloc(df, loc[m].row, loc[m].col + 3)

\* a row below the anchor row of marker m resolves to the label of the
\* anchor row
LaterRowYields(m) ==
    \E r \in HarvestedRows(m) :
        r > loc[m].row /\ LabelOf(m, r) = strip(MarkerCell(m).s)

\* the loop of a call is entered at the anchor row of its marker
StartsAtAnchor ==
    (pc = "call" /\ pc' = "loop") => (i' = loc[cur].row /\ cur' = cur)

\* C23: the loop of both extractors starts at the anchor row, whose cell is
\* a Rule A cell: once the parser has returned, the trimmed text of the
\* marker cell is a label of the mapping of its marker exactly when the
\* cell three columns right of it is a number (or a later row resolves to
\* the same label), and then, with no such later row, it stands for that
\* number.
GridC23_AnchorRowIsRuleA ==
    /\ [](pc = "returned" =>
            \A m \in MarkersOf(parser) :
                loc[m] # NoLoc =>
                    /\ RuleACell(MarkerCell(m), TRUE)
                    /\ InRange(df, loc[m].row, loc[m].col + 3)
                    /\ strip(MarkerCell(m).s) \in DOMAIN data_dict[m]
                          <=> (to_float(MarkerAmount(m)).ok \/ LaterRowYields(m))
                    /\ (to_float(MarkerAmount(m)).ok /\ ~LaterRowYields(m))
                          => data_dict[m][strip(MarkerCell(m).s)] = to_float(MarkerAmount(m)).v)
    /\ [][StartsAtAnchor]_vars

\* C23 witness: the parser returned with the second marker found in the
\* cell " <marker>" and its trimmed text a label of the mapping, standing
\* for the amount of the anchor row
GridC23_Witness ==
    /\ pc = "returned"
    /\ \E m \in MarkersOf(parser) :
          /\ m = SecondMarker(parser)
          /\ loc[m] # NoLoc
          /\ MarkerCell(m) = Text(<<" ", m>>)
          /\ <<m>> \in DOMAIN data_dict[m]
          /\ data_dict[m][<<m>>] = MarkerAmount(m).n

(***************************************************************************)
(* The session of main.py, checked under SpecUI.                           *)
(***************************************************************************)
\* the script run of this step set report_generated
BecomesGenerated == ~session_state.report_generated /\ session_state'.report_generated

\* C24: in every state of a session, whatever the logins, uploads, generate
\* clicks and logouts before it, the preview is drawn only with
\* authenticated and report_generated both true; report_generated becomes
\* true only in the run of a click on the generate button, in a logged-in
\* session whose financial data is not empty and whose image is uploaded;
\* and a logout leaves authenticated and report_generated both false.
UiC24_SessionState ==
    /\ [](page = "preview"
            => (session_state.authenticated /\ session_state.report_generated))
    /\ [][/\ BecomesGenerated
             => /\ event' = "generate"
                /\ session_state.authenticated
                /\ session_state'.authenticated
                /\ bool(session_state'.full_financial_data)
                /\ session_state'.uploaded_image.some
          /\ event' = "logout"
             => /\ ~session_state'.authenticated
                /\ ~session_state'.report_generated
                /\ page' = "login"]_vars

\* C24 witness: after a logout and a new login the generate button was
\* clicked with both uploaders empty, and the preview is drawn from the
\* workbook and the image of the session before
UiC24_Witness ==
    /\ event = "generate"
    /\ page = "preview"
    /\ session_state.authenticated
    /\ session_state.report_generated
    /\ ~report_uploader.some
    /\ ~image_uploader.some
    /\ bool(session_state.full_financial_data)
    /\ session_state.uploaded_image.some

=============================================================================
